---- MODULE Spec2Model ----
(***************************************************************************)
(* A model of the wordle helper (src/src/main.rs): the constraint parsers, *)
(* Filter, CharFreq, WordScore with its ordering, and the two commands of  *)
(* main (Grep and Analyse).                                                *)
(*                                                                         *)
(* A char is its Unicode scalar value (an integer), a String is a sequence *)
(* of chars.  str::len() and char_indices() count UTF-8 bytes, so the      *)
(* model keeps the encoded width of every char.                            *)
(***************************************************************************)
EXTENDS Integers, Sequences, FiniteSets, Bags, TLC

VARIABLES
    pc,                       \* position of the modelled run
    filter, word, accepted,   \* Filter, the candidate word, the result of accept
    target, targets,          \* raw pattern arguments of Grep
    char_position,            \* result of parse_char_position
    not_match_char_position,  \* result of parse_different_positions
    char_freq,                \* the CharFreq being built or used
    calls,                    \* how often add_char was called with each char
    file,                     \* the frequency file: whether it exists, its bytes
    written,                  \* the bytes the last Analyse wrote
    loaded,                   \* the CharFreq from_file returned
    runs,                     \* how many Analyse runs have completed
    build,                    \* "debug": overflow checks on; "release": off
    ws,                       \* the WordScore WordScore::new returned
    heap,                     \* the BinaryHeap<WordScore>, as a bag
    pushed,                   \* how many WordScores were pushed
    popped,                   \* the WordScores heap.pop() returned, in order
    last,                     \* what the last heap.pop() returned
    score_sort,               \* the requested count K of Grep
    k,                        \* the countdown of the drain loop (an isize)
    dict,                     \* the lines of the word source
    nread,                    \* how many lines Grep has read
    out,                      \* the words printed, in order
    fault                     \* the first fault met while scoring

vars == <<pc, filter, word, accepted, target, targets, char_position,
          not_match_char_position, char_freq, calls, file, written, loaded, runs,
          build, ws, heap, pushed, popped, last, score_sort, k, dict, nread, out,
          fault>>

----------------------------------------------------------------------------
(* Bounds of the explored inputs.                                          *)

MaxWordChars == 5       \* chars of a candidate word handed to accept
MaxConstraints == 1     \* entries of each constraint list of a Filter
MaxPatChars == 5        \* chars of the pattern handed to parse_char_position
MaxDiffChars == 5       \* chars of a pattern handed to parse_different_positions
MaxTargets == 2         \* patterns handed to parse_different_positions
MaxAdds == 6            \* add_char calls on one CharFreq
MaxAnalyses == 2        \* Analyse runs over the same frequency file
BigRun == 100           \* length of a long run of one char in a corpus
MaxScoreChars == 6      \* chars of a word handed to WordScore::new
MaxHeapChars == 2       \* chars of a word pushed on the heap
MaxPush == 3            \* WordScores pushed on the heap
MaxLines == 3           \* lines of the word source read by Grep
MaxK == 3               \* the small requested counts of Grep
UsizeBits == 16         \* width of usize and isize in the model (64 on the
                        \* program's targets; the casts and limits scale)

----------------------------------------------------------------------------
(* Characters.                                                             *)

LowerA == 97            \* 'a'
Star == 42              \* '*'
Colon == 58             \* ':'
Newline == 10           \* '\n'
CarriageReturn == 13    \* '\r'
Zero == 48              \* '0'

\* Candidate words are drawn over 'a', 'b' and the two-byte 'é' (U+00E9).
WordChars == {97, 98, 233}
\* Patterns are drawn over 'a', '*' and 'é'.
PatChars == {97, 42, 233}
DiffPatChars == {97, 42}

SeqsUpTo(S, n) == UNION {[1..m -> S] : m \in 0..n}

Range(s) == {s[i] : i \in 1..Len(s)}

\* char::len_utf8
len_utf8(c) == IF c < 128 THEN 1 ELSE IF c < 2048 THEN 2 ELSE IF c < 65536 THEN 3 ELSE 4

\* str::len: the number of bytes of the UTF-8 encoding
RECURSIVE str_len(_)
str_len(s) == IF s = <<>> THEN 0 ELSE len_utf8(Head(s)) + str_len(Tail(s))

\* str::char_indices: the (byte offset, char) pairs, in order
RECURSIVE char_indices_from(_, _)
char_indices_from(s, off) ==
    IF s = <<>> THEN <<>>
    ELSE <<[pos |-> off, c |-> Head(s)]>> \o char_indices_from(Tail(s), off + len_utf8(Head(s)))

char_indices(s) == char_indices_from(s, 0)

\* str::find(char).is_some()
str_contains(s, c) == \E i \in 1..Len(s) : s[i] = c

----------------------------------------------------------------------------
(* struct CharPosition, struct Filter                                      *)

CharPosition(c, p) == [char |-> c, position |-> p]

Filter_new(ignore_chars, char_positions, different_char_positions) ==
    [length |-> 5,
     ignore_chars |-> ignore_chars,
     char_positions |-> char_positions,
     different_char_positions |-> different_char_positions]

\* word.char_indices().collect::<HashMap<_, _>>(): byte offset -> char
pos_char_of(w) ==
    LET ci == char_indices(w)
    IN  [p \in {ci[i].pos : i \in 1..Len(ci)} |->
            (CHOOSE e \in Range(ci) : e.pos = p).c]

\* the first loop of accept_char_position, from entry i on
RECURSIVE match_all(_, _, _)
match_all(cps, pos_char, i) ==
    IF i > Len(cps) THEN TRUE
    ELSE IF cps[i].position \in DOMAIN pos_char /\ pos_char[cps[i].position] = cps[i].char
         THEN match_all(cps, pos_char, i + 1)
         ELSE FALSE

\* the second loop of accept_char_position, from entry i on
RECURSIVE differ_all(_, _, _)
differ_all(cps, pos_char, i) ==
    IF i > Len(cps) THEN TRUE
    ELSE IF cps[i].position \in DOMAIN pos_char /\ pos_char[cps[i].position] = cps[i].char
         THEN FALSE
         ELSE differ_all(cps, pos_char, i + 1)

accept_char_position(f, w) ==
    LET pos_char == pos_char_of(w)
    IN  IF ~match_all(f.char_positions, pos_char, 1) THEN FALSE
        ELSE differ_all(f.different_char_positions, pos_char, 1)

\* the loop of accept_char over a list, from entry i on
RECURSIVE present_all(_, _, _)
present_all(cps, w, i) ==
    IF i > Len(cps) THEN TRUE
    ELSE IF ~str_contains(w, cps[i].char) THEN FALSE
         ELSE present_all(cps, w, i + 1)

\* a Filter that forgets the presence rule
accept_char_nopresence(f, w) == TRUE

accept_char(f, w) == present_all(f.different_char_positions, w, 1)

\* the loop of accept over ignore_chars, from entry i on
RECURSIVE none_ignored(_, _, _)
none_ignored(ics, w, i) ==
    IF i > Len(ics) THEN TRUE
    ELSE IF str_contains(w, ics[i]) THEN FALSE
         ELSE none_ignored(ics, w, i + 1)

accept(f, w) ==
    IF str_len(w) # f.length THEN FALSE
    ELSE IF ~none_ignored(f.ignore_chars, w, 1) THEN FALSE
    ELSE IF ~accept_char_position(f, w) THEN FALSE
    ELSE IF ~accept_char(f, w) THEN FALSE
    ELSE TRUE

----------------------------------------------------------------------------
(* Constraint parsing                                                      *)

\* the loop over target.char_indices(), from entry i on
RECURSIVE push_positions(_, _)
push_positions(ci, i) ==
    IF i > Len(ci) THEN <<>>
    ELSE IF ci[i].c = Star THEN push_positions(ci, i + 1)
         ELSE <<CharPosition(ci[i].c, ci[i].pos)>> \o push_positions(ci, i + 1)

parse_char_position(t) ==
    IF str_len(t) # 5 THEN <<>>
    ELSE push_positions(char_indices(t), 1)

parse_ignore_chars(s) == s

\* the loop over targets, from entry i on
RECURSIVE parse_different_from(_, _)
parse_different_from(ts, i) ==
    IF i > Len(ts) THEN <<>>
    ELSE IF str_len(ts[i]) # 5 THEN parse_different_from(ts, i + 1)
         ELSE push_positions(char_indices(ts[i]), 1) \o parse_different_from(ts, i + 1)

\* a parser that gives up at the first pattern of the wrong length
RECURSIVE parse_different_stop(_, _)
parse_different_stop(ts, i) ==
    IF i > Len(ts) THEN <<>>
    ELSE IF str_len(ts[i]) # 5 THEN <<>>
         ELSE push_positions(char_indices(ts[i]), 1) \o parse_different_stop(ts, i + 1)

parse_different_positions_stop(ts) == parse_different_stop(ts, 1)

parse_different_positions(ts) == parse_different_from(ts, 1)

----------------------------------------------------------------------------
(* std::cmp::Ordering                                                      *)

cmp_int(x, y) == IF x < y THEN "Less" ELSE IF x > y THEN "Greater" ELSE "Equal"
reverse(o) == IF o = "Less" THEN "Greater" ELSE IF o = "Greater" THEN "Less" ELSE o
then_with(o1, o2) == IF o1 = "Equal" THEN o2 ELSE o1

----------------------------------------------------------------------------
(* struct CharFreq: inner[i + 1] is the count of the letter 'a' + i         *)

is_ascii_alphabetic(c) == c \in 65..90 \/ c \in 97..122
to_ascii_lowercase(c) == IF c \in 65..90 THEN c + 32 ELSE c

CharFreq_new == [i \in 1..26 |-> 0]

\* an add_char that counts lowercase letters only
add_char_lower_only(cf, c) ==
    IF c \notin 97..122 THEN cf
    ELSE [cf EXCEPT ![c - LowerA + 1] = @ + 1]

add_char(cf, c) ==
    IF ~is_ascii_alphabetic(c) THEN cf
    ELSE LET i == to_ascii_lowercase(c) - LowerA
         IN  [cf EXCEPT ![i + 1] = @ + 1]

\* the comparator of to_vec with the letter order flipped
to_vec_cmp_letter_desc(e1, e2) ==
    reverse(then_with(cmp_int(e1.count, e2.count), cmp_int(e1.c, e2.c)))

\* the closure handed to sort_by in to_vec; an entry is (index, count)
to_vec_cmp(e1, e2) ==
    reverse(then_with(cmp_int(e1.count, e2.count), reverse(cmp_int(e1.c, e2.c))))

\* slice::sort_by: a stable sort; x goes after the entries that are not Greater
RECURSIVE sort_insert(_, _)
sort_insert(x, sorted) ==
    IF sorted = <<>> THEN <<x>>
    ELSE IF to_vec_cmp(Head(sorted), x) = "Greater" THEN <<x>> \o sorted
         ELSE <<Head(sorted)>> \o sort_insert(x, Tail(sorted))

RECURSIVE sort_by(_, _)
sort_by(v, n) == IF n = 0 THEN <<>> ELSE sort_insert(v[n], sort_by(v, n - 1))

to_vec(cf) ==
    LET v == [i \in 1..26 |-> [c |-> i - 1, count |-> cf[i]]]
        s == sort_by(v, 26)
    IN  [i \in 1..26 |-> [char |-> s[i].c + LowerA, count |-> s[i].count]]

\* the loop of Analyse over buffer.chars(): add_char on buffer[lo..hi], in
\* order.  The range is halved and the left half is evaluated before the right
\* one is entered, which keeps the evaluation of a long buffer shallow.
RECURSIVE add_chars(_, _, _, _)
add_chars(cf, buffer, lo, hi) ==
    IF lo > hi THEN cf
    ELSE IF lo = hi THEN add_char(cf, buffer[lo])
    ELSE LET mid == (lo + hi) \div 2
             left == add_chars(cf, buffer, lo, mid)
         IN  IF DOMAIN left = 1..26 THEN add_chars(left, buffer, mid + 1, hi) ELSE left

\* format!("{}", count): the decimal digits of a usize
RECURSIVE fmt_usize(_)
fmt_usize(n) ==
    IF n < 10 THEN <<Zero + n>> ELSE fmt_usize(n \div 10) \o <<Zero + (n % 10)>>

\* format!("{}:{}\n", c, count)
fmt_line(e) == <<e.char>> \o <<Colon>> \o fmt_usize(e.count) \o <<Newline>>

\* the write loop of Analyse over char_freq.to_vec()
RECURSIVE fmt_lines(_, _)
fmt_lines(v, i) == IF i > Len(v) THEN <<>> ELSE fmt_line(v[i]) \o fmt_lines(v, i + 1)

\* File::options().create(true).write(true).open(path), then the writes:
\* the file is created when absent, is not truncated, and is written from
\* offset 0, so the bytes of an older, longer file stay behind the new ones.
write_file(f, bytes) ==
    [exists |-> TRUE,
     bytes |-> IF f.exists /\ Len(f.bytes) > Len(bytes)
               THEN bytes \o SubSeq(f.bytes, Len(bytes) + 1, Len(f.bytes))
               ELSE bytes]

\* BufRead::lines: split at '\n', dropping it and a '\r' right before it; the
\* text after the last '\n' is a line when it is not empty
strip_cr(l) ==
    IF l # <<>> /\ l[Len(l)] = CarriageReturn THEN SubSeq(l, 1, Len(l) - 1) ELSE l

RECURSIVE lines_from(_, _)
lines_from(bytes, start) ==
    IF start > Len(bytes) THEN <<>>
    ELSE LET nls == {i \in start..Len(bytes) : bytes[i] = Newline}
         IN  IF nls = {} THEN <<SubSeq(bytes, start, Len(bytes))>>
             ELSE LET nl == CHOOSE i \in nls : \A j \in nls : i <= j
                  IN  <<strip_cr(SubSeq(bytes, start, nl - 1))>>
                          \o lines_from(bytes, nl + 1)

lines(bytes) == lines_from(bytes, 1)

is_digit(c) == c \in Zero..(Zero + 9)

\* Regex ^([a-z]):(\d+)$ on one line
re_matches(l) ==
    /\ Len(l) >= 3
    /\ l[1] \in 97..122
    /\ l[2] = Colon
    /\ \A i \in 3..Len(l) : is_digit(l[i])

\* str::parse::<usize> of a run of digits
RECURSIVE parse_usize(_, _)
parse_usize(ds, n) ==
    IF n = 0 THEN 0 ELSE parse_usize(ds, n - 1) * 10 + (ds[n] - Zero)

\* the loop of from_file over the lines
RECURSIVE load_lines(_, _, _)
load_lines(cf, ls, i) ==
    IF i > Len(ls) THEN cf
    ELSE IF re_matches(ls[i])
         THEN LET count == parse_usize(SubSeq(ls[i], 3, Len(ls[i])), Len(ls[i]) - 2)
                  c == ls[i][1] - LowerA
              IN  load_lines([cf EXCEPT ![c + 1] = count], ls, i + 1)
         ELSE load_lines(cf, ls, i + 1)

\* from_file on an existing file
from_file(f) == load_lines(CharFreq_new, lines(f.bytes), 1)

----------------------------------------------------------------------------
(* struct WordScore                                                        *)

\* A step of calc_score or get_freq that leaves the defined behaviour is a
\* fault: "underflow" and "overflow" are the u8/usize subtractions and the u8
\* addition (a panic with overflow checks, a wrap-around without), and
\* "out_of_range" is get_unchecked with an index outside inner; the value
\* such a read returns is the parameter garbage.

\* get_freq: [fault, value]
get_freq(cf, c, bld, garbage) ==
    LET l == to_ascii_lowercase(c)
    IN  IF l < LowerA
        THEN IF bld = "debug" THEN [fault |-> "underflow", value |-> 0]
             ELSE [fault |-> "out_of_range", value |-> garbage]
        ELSE IF l - LowerA >= 26 THEN [fault |-> "out_of_range", value |-> garbage]
        ELSE [fault |-> "none", value |-> cf[l - LowerA + 1]]

\* the first loop of calc_score, from char i on: [fault, s], s the BitSet
RECURSIVE insert_letters(_, _, _, _)
insert_letters(w, i, s, bld) ==
    IF i > Len(w) THEN [fault |-> "none", s |-> s]
    ELSE LET c == to_ascii_lowercase(w[i]) % 256    \* c as u8
         IN  IF c < LowerA /\ bld = "debug" THEN [fault |-> "underflow", s |-> s]
             ELSE insert_letters(w, i + 1, s \cup {(c - LowerA) % 256}, bld)

\* the second loop of calc_score over the BitSet, in ascending order
RECURSIVE sum_freqs(_, _, _, _, _, _)
sum_freqs(cf, s, score, first, bld, garbage) ==
    IF s = {} THEN [fault |-> first, score |-> score]
    ELSE LET x == CHOOSE y \in s : \A z \in s : y <= z
         IN  IF x + LowerA > 255 /\ bld = "debug"
             THEN [fault |-> "overflow", score |-> score]
             ELSE LET f == get_freq(cf, (x + LowerA) % 256, bld, garbage)
                  IN  IF f.fault = "underflow" THEN [fault |-> "underflow", score |-> score]
                      ELSE sum_freqs(cf, s \ {x}, score + f.value,
                                     IF first = "none" THEN f.fault ELSE first,
                                     bld, garbage)

\* a calc_score that adds the frequency of every char, repeated or not
RECURSIVE sum_every_char(_, _, _)
sum_every_char(w, cf, i) ==
    IF i > Len(w) THEN 0
    ELSE cf[to_ascii_lowercase(w[i]) - LowerA + 1] + sum_every_char(w, cf, i + 1)

calc_score_every_char(w, cf, bld, garbage) ==
    [fault |-> "none", score |-> sum_every_char(w, cf, 1)]

\* calc_score: [fault, score]
calc_score(w, cf, bld, garbage) ==
    LET ins == insert_letters(w, 1, {}, bld)
    IN  IF ins.fault # "none" THEN [fault |-> ins.fault, score |-> 0]
        ELSE sum_freqs(cf, ins.s, 0, "none", bld, garbage)

\* WordScore::new: the WordScore and the fault met while scoring
WordScore_new(w, cf, bld, garbage) ==
    LET r == calc_score(w, cf, bld, garbage)
    IN  [ws |-> [word |-> w, score |-> r.score], fault |-> r.fault]

\* String::cmp: lexicographic on the UTF-8 bytes, which is the order of the
\* sequences of scalar values
RECURSIVE cmp_str(_, _)
cmp_str(a, b) ==
    IF a = <<>> THEN (IF b = <<>> THEN "Equal" ELSE "Less")
    ELSE IF b = <<>> THEN "Greater"
    ELSE IF Head(a) # Head(b) THEN cmp_int(Head(a), Head(b))
    ELSE cmp_str(Tail(a), Tail(b))

\* an ordering whose tie-break is not reversed
cmp_word_ascending(x, y) ==
    then_with(cmp_int(x.score, y.score), cmp_str(x.word, y.word))

\* impl Ord for WordScore
cmp(x, y) ==
    then_with(cmp_int(x.score, y.score), reverse(cmp_str(x.word, y.word)))

\* size_of::<WordScore>(): a String, a usize and a reference
SizeOfWordScore == 40

UsizeMax == 2 ^ UsizeBits - 1
IsizeMax == 2 ^ (UsizeBits - 1) - 1

\* n as isize, for a usize n
as_isize(n) == IF n > IsizeMax THEN n - 2 ^ UsizeBits ELSE n

\* BinaryHeap::with_capacity(n) panics with "capacity overflow" when the
\* buffer would exceed isize::MAX bytes
capacity_overflow(n) == n * SizeOfWordScore > IsizeMax

\* String::to_lowercase, on chars up to U+00FF
to_lowercase_char(c) ==
    IF c \in 65..90 \/ c \in 192..214 \/ c \in 216..222 THEN c + 32 ELSE c

to_lowercase(str) == [i \in 1..Len(str) |-> to_lowercase_char(str[i])]

\* BinaryHeap::push
heap_push(h, x) == h (+) SetToBag({x})

\* BinaryHeap::pop: a greatest element under cmp, or None
None == [word |-> <<>>, score |-> -1]

\* a pop that returns a least element
heap_max_least(h) ==
    IF BagToSet(h) = {} THEN None
    ELSE CHOOSE x \in BagToSet(h) : \A y \in BagToSet(h) : cmp(y, x) # "Less"

heap_max(h) ==
    IF BagToSet(h) = {} THEN None
    ELSE CHOOSE x \in BagToSet(h) : \A y \in BagToSet(h) : cmp(y, x) # "Greater"

heap_remove(h, x) == h (-) SetToBag({x})

----------------------------------------------------------------------------
(* Initial values of the state each run does not use.                      *)

NoFilter == Filter_new(<<>>, <<>>, <<>>)

IdleFilter == filter = NoFilter /\ word = <<>> /\ accepted = FALSE
IdleParse ==
    /\ target = <<>> /\ targets = <<>>
    /\ char_position = <<>> /\ not_match_char_position = <<>>

NoFile == [exists |-> FALSE, bytes |-> <<>>]

\* the chars the add_char calls are drawn from: a A b c z '\n' '-'
FreqChars == {97, 65, 98, 99, 10, 45}

IdleFreq == char_freq = CharFreq_new /\ calls = [c \in FreqChars |-> 0]
IdleAnalyse == file = NoFile /\ written = <<>> /\ loaded = CharFreq_new /\ runs = 0

IdleScore == build = "release" /\ ws = None
IdleHeap == heap = EmptyBag /\ pushed = 0 /\ popped = <<>> /\ last = None

IdleGrep ==
    /\ score_sort = 0 /\ k = 0 /\ dict = <<>> /\ nread = 0 /\ out = <<>>
    /\ fault = "none"

grepVars == <<score_sort, k, dict, nread, out, fault>>
scoreVars == <<build, ws>>
heapVars == <<heap, pushed, popped, last>>
filterVars == <<filter, word, accepted>>
parseVars == <<target, targets, char_position, not_match_char_position>>
freqVars == <<char_freq, calls>>
analyseVars == <<file, written, loaded, runs>>

----------------------------------------------------------------------------
(* SpecFilter: a Filter is built from constraint lists and asked about a   *)
(* candidate word.                                                         *)

FilterPositions == {0, 1, 5}
IgnoreLists == SeqsUpTo({98}, MaxConstraints)
RequiredLists ==
    SeqsUpTo({CharPosition(97, p) : p \in FilterPositions}, MaxConstraints)
ForbiddenLists ==
    SeqsUpTo({CharPosition(98, p) : p \in FilterPositions}, MaxConstraints)
Words == SeqsUpTo(WordChars, MaxWordChars)

InitFilter ==
    /\ pc = "start" /\ IdleFilter /\ IdleParse /\ IdleFreq /\ IdleAnalyse
    /\ IdleScore /\ IdleHeap /\ IdleGrep

NewFilter ==
    /\ pc = "start"
    /\ \E ic \in IgnoreLists, cps \in RequiredLists, dcps \in ForbiddenLists :
          filter' = Filter_new(ic, cps, dcps)
    /\ pc' = "filter"
    /\ UNCHANGED <<word, accepted>>
    /\ UNCHANGED <<grepVars, parseVars, freqVars, analyseVars, scoreVars,
                   heapVars>>

Accept ==
    /\ pc = "filter"
    /\ \E w \in Words :
          /\ word' = w
          /\ accepted' = accept(filter, w)
    /\ pc' = "accepted"
    /\ UNCHANGED filter
    /\ UNCHANGED <<grepVars, parseVars, freqVars, analyseVars, scoreVars,
                   heapVars>>

NextFilter == NewFilter \/ Accept

SpecFilter == InitFilter /\ [][NextFilter]_vars

\* the byte offset of the i-th char of w
RECURSIVE OffsetOf(_, _)
OffsetOf(w, i) == IF i = 1 THEN 0 ELSE OffsetOf(w, i - 1) + len_utf8(w[i - 1])

\* w has the letter c at position p
HasAt(w, c, p) == \E i \in 1..Len(w) : OffsetOf(w, i) = p /\ w[i] = c

Accepts(f, w) ==
    /\ str_len(w) = 5
    /\ \A i \in 1..Len(f.ignore_chars) : f.ignore_chars[i] \notin Range(w)
    /\ \A i \in 1..Len(f.char_positions) :
          HasAt(w, f.char_positions[i].char, f.char_positions[i].position)
    /\ \A i \in 1..Len(f.different_char_positions) :
          /\ ~HasAt(w, f.different_char_positions[i].char,
                    f.different_char_positions[i].position)
          /\ f.different_char_positions[i].char \in Range(w)

\* C1: accept(word) is true exactly when the word has length 5 (str::len),
\* holds no excluded letter, has every required letter at its position, has
\* no forbidden letter at its position, and contains every letter of the
\* forbidden-positions list; a letter of the required-positions list is
\* subject to no presence rule of its own.
C1_AcceptExact == pc = "accepted" => (accepted <=> Accepts(filter, word))

\* A word is rejected for the presence rule alone: it passes every other rule.
C1_Witness ==
    /\ pc = "accepted"
    /\ ~accepted
    /\ filter.different_char_positions # <<>>
    /\ filter.char_positions # <<>>
    /\ Accepts([filter EXCEPT !.different_char_positions = <<>>], word)
    /\ \A i \in 1..Len(filter.different_char_positions) :
          ~HasAt(word, filter.different_char_positions[i].char,
                 filter.different_char_positions[i].position)

----------------------------------------------------------------------------
(* SpecParse: the two pattern parsers applied to raw arguments.            *)

Patterns == SeqsUpTo(PatChars, MaxPatChars)
DiffPatterns == {p \in SeqsUpTo(DiffPatChars, MaxDiffChars) : Len(p) >= 4}

InitParse ==
    /\ pc = "start" /\ IdleFilter /\ IdleParse /\ IdleFreq /\ IdleAnalyse
    /\ IdleScore /\ IdleHeap /\ IdleGrep

ParseCharPosition ==
    /\ pc = "start"
    /\ \E t \in Patterns :
          /\ target' = t
          /\ char_position' = parse_char_position(t)
    /\ pc' = "target"
    /\ UNCHANGED <<targets, not_match_char_position>>
    /\ UNCHANGED <<grepVars, filterVars, freqVars, analyseVars, scoreVars,
                   heapVars>>

ParseDifferentPositions ==
    /\ pc = "start"
    /\ \E n \in 0..MaxTargets : \E ts \in [1..n -> DiffPatterns] :
          /\ targets' = ts
          /\ not_match_char_position' = parse_different_positions(ts)
    /\ pc' = "different"
    /\ UNCHANGED <<target, char_position>>
    /\ UNCHANGED <<grepVars, filterVars, freqVars, analyseVars, scoreVars,
                   heapVars>>

NextParse == ParseCharPosition \/ ParseDifferentPositions

SpecParse == InitParse /\ [][NextParse]_vars

\* the entries a single pattern stands for: one per char that is not '*',
\* with its index, in index order; none when the pattern is not 5 long
NonStar(t) == {i \in 1..Len(t) : t[i] # Star}

RECURSIVE EntriesOf(_, _)
EntriesOf(t, idx) ==
    IF idx = {} THEN <<>>
    ELSE LET i == CHOOSE j \in idx : \A m \in idx : j <= m
         IN  <<CharPosition(t[i], OffsetOf(t, i))>> \o EntriesOf(t, idx \ {i})

PatternEntries(t) == IF str_len(t) = 5 THEN EntriesOf(t, NonStar(t)) ELSE <<>>

RECURSIVE Concat(_)
Concat(ss) == IF ss = <<>> THEN <<>> ELSE Head(ss) \o Concat(Tail(ss))

\* C9: parse_char_position gives one (letter, index) entry per char that is
\* not '*' of a pattern of length 5, in index order, and nothing for any
\* other length; parse_different_positions gives the concatenation of the
\* per-pattern results, so a pattern of the wrong length adds nothing and
\* leaves the entries of the others alone.
C9_ParseExact ==
    /\ pc = "target" => char_position = PatternEntries(target)
    /\ pc = "different" =>
          not_match_char_position =
              Concat([i \in 1..Len(targets) |-> PatternEntries(targets[i])])

\* A wrong-length pattern comes before a well-formed one that has a wildcard
\* and a letter, and the well-formed one still contributes its entries.
C9_Witness ==
    /\ pc = "different"
    /\ Len(targets) = 2
    /\ str_len(targets[1]) # 5
    /\ str_len(targets[2]) = 5
    /\ Star \in Range(targets[2])
    /\ not_match_char_position # <<>>

----------------------------------------------------------------------------
(* SpecFreq: add_char calls on a freshly created CharFreq.                 *)

RECURSIVE SumOver(_, _)
SumOver(f, S) ==
    IF S = {} THEN 0
    ELSE LET x == CHOOSE y \in S : TRUE IN f[x] + SumOver(f, S \ {x})

InitFreq ==
    /\ pc = "start" /\ IdleFilter /\ IdleParse /\ IdleFreq /\ IdleAnalyse
    /\ IdleScore /\ IdleHeap /\ IdleGrep

AddChar ==
    /\ pc = "start"
    /\ SumOver(calls, FreqChars) < MaxAdds
    /\ \E c \in FreqChars :
          /\ char_freq' = add_char(char_freq, c)
          /\ calls' = [calls EXCEPT ![c] = @ + 1]
    /\ UNCHANGED <<grepVars, pc, filterVars, parseVars, analyseVars, scoreVars,
                   heapVars>>

NextFreq == AddChar

SpecFreq == InitFreq /\ [][NextFreq]_vars

Letters == 97..122

\* how often the letter l was added, in either case
Added(l) ==
    (IF l \in FreqChars THEN calls[l] ELSE 0)
    + (IF l - 32 \in FreqChars THEN calls[l - 32] ELSE 0)

NonZero(v) == SelectSeq(v, LAMBDA e : e.count > 0)

\* C7: after any add_char calls on a fresh CharFreq the ranked listing
\* restricted to nonzero counts holds exactly the letters added, each with
\* the number of times it was added in either case (a char that is no letter
\* changes nothing), by descending count and, for equal counts, ascending
\* letter.
C7_NonZeroListing ==
    LET nz == NonZero(to_vec(char_freq))
    IN  /\ {nz[i].char : i \in 1..Len(nz)} = {l \in Letters : Added(l) > 0}
        /\ \A i \in 1..Len(nz) : nz[i].count = Added(nz[i].char)
        /\ \A i, j \in 1..Len(nz) :
              i < j => \/ nz[i].count > nz[j].count
                       \/ nz[i].count = nz[j].count /\ nz[i].char < nz[j].char

\* a, a, b, c, '\n', '-' were added and the listing is [(a,2), (b,1), (c,1)]
C7_Witness ==
    /\ calls = [c \in FreqChars |-> IF c = 97 THEN 2 ELSE IF c = 65 THEN 0 ELSE 1]
    /\ NonZero(to_vec(char_freq)) =
          <<[char |-> 97, count |-> 2], [char |-> 98, count |-> 1],
            [char |-> 99, count |-> 1]>>

----------------------------------------------------------------------------
(* SpecAnalyse: Analyse runs over corpora, each writing the frequency file *)
(* at the same path, and a later Grep loads the file with from_file.       *)

\* corpora are two runs of one char each, over 'a', 'b', 'z' and '\n'
CorpusChars == {97, 98, 122, 10}
RunLens == {0, 1, BigRun}
Run(c, n) == [i \in 1..n |-> c]
Corpora ==
    {Run(c1, n1) \o Run(c2, n2) : c1, c2 \in CorpusChars, n1, n2 \in RunLens}

InitAnalyse ==
    /\ pc = "start" /\ IdleFilter /\ IdleParse /\ IdleFreq /\ IdleAnalyse
    /\ IdleScore /\ IdleHeap /\ IdleGrep

Analyse ==
    /\ pc \in {"start", "analysed"}
    /\ runs < MaxAnalyses
    /\ \E buffer \in Corpora :
          LET cf == add_chars(CharFreq_new, buffer, 1, Len(buffer))
              bytes == fmt_lines(to_vec(cf), 1)
          IN  /\ char_freq' = cf
              /\ written' = bytes
              /\ file' = write_file(file, bytes)
    /\ runs' = runs + 1
    /\ pc' = "analysed"
    /\ UNCHANGED <<grepVars, loaded, calls, filterVars, parseVars, scoreVars,
                   heapVars>>

FromFile ==
    /\ pc = "analysed"
    /\ loaded' = from_file(file)
    /\ pc' = "loaded"
    /\ UNCHANGED <<grepVars, file, written, runs, freqVars, filterVars,
                   parseVars, scoreVars, heapVars>>

NextAnalyse == Analyse \/ FromFile

SpecAnalyse == InitAnalyse /\ [][NextAnalyse]_vars

LineLetter(l) == l[1]
LineCount(l) == parse_usize(SubSeq(l, 3, Len(l)), Len(l) - 2)

\* to_vec lists every letter once with its count, by descending count, ties
\* in the given letter order, and the bytes Analyse wrote are those lines
Ranked(cf, bytes, tie(_, _)) ==
    LET v == to_vec(cf)
        ls == lines(bytes)
    IN  /\ Len(v) = 26
        /\ {v[i].char : i \in 1..26} = Letters
        /\ \A i \in 1..26 : v[i].count = cf[v[i].char - 97 + 1]
        /\ \A i \in 1..25 :
              \/ v[i].count > v[i + 1].count
              \/ v[i].count = v[i + 1].count /\ tie(v[i].char, v[i + 1].char)
        /\ Len(ls) = 26
        /\ \A i \in 1..26 :
              /\ re_matches(ls[i])
              /\ LineLetter(ls[i]) = v[i].char
              /\ LineCount(ls[i]) = v[i].count

\* C6 as stated: to_vec returns all 26 (letter, count) pairs, each letter once
\* with its count, by descending count, ties broken by descending letter, and
\* Analyse writes its 26 lines in this order.
C6_TiesDescending ==
    pc = "analysed" => Ranked(char_freq, written, LAMBDA x, y : x > y)

\* C6 amended: as above, with ties between equal counts broken by ascending
\* letter ('a' before 'z').
C6_TiesAscending ==
    pc = "analysed" => Ranked(char_freq, written, LAMBDA x, y : x < y)

\* Analyse has written a table where two letters share a nonzero count and
\* the others tie at zero.
C6_Witness ==
    /\ pc = "analysed"
    /\ char_freq[1] = 1 /\ char_freq[26] = 1
    /\ lines(written)[1] = <<97, Colon, Zero + 1>>
    /\ lines(written)[2] = <<122, Colon, Zero + 1>>

\* C8: after Analyse the file holds exactly 26 letter:count lines, one per
\* letter, and from_file returns the table Analyse built, whatever an earlier
\* Analyse left in the file.
C8_RoundTrip ==
    pc = "loaded" =>
        LET ls == lines(file.bytes)
        IN  /\ Len(ls) = 26
            /\ \A i \in 1..Len(ls) : re_matches(ls[i])
            /\ \A l \in Letters :
                  Cardinality({i \in 1..Len(ls) : LineLetter(ls[i]) = l}) = 1
            /\ loaded = char_freq

\* C8, the content alone: from_file returns the table the last Analyse built.
C8_LoadedEqualsBuilt == pc = "loaded" => loaded = char_freq

----------------------------------------------------------------------------
(* SpecScore: WordScore::new on a word of ASCII letters.                   *)

\* words are drawn over 'a', 'A', 'b' and 'c'
ScoreChars == {97, 65, 98, 99}
\* the corpora the frequency tables are built from: "aaabc" and "abb"
ScoreCorpora == {<<97, 97, 97, 98, 99>>, <<97, 98, 98>>}
ScoreTables == {add_chars(CharFreq_new, b, 1, Len(b)) : b \in ScoreCorpora}
\* what a read outside the table may return
GarbageValues == {0, 7}

InitScore ==
    /\ pc = "start" /\ IdleFilter /\ IdleParse /\ IdleAnalyse /\ IdleHeap /\ IdleGrep
    /\ calls = [c \in FreqChars |-> 0]
    /\ char_freq \in ScoreTables
    /\ build = "release"
    /\ ws = None

NewWordScore ==
    /\ pc = "start"
    /\ \E n \in 0..MaxScoreChars : \E w \in [1..n -> ScoreChars] :
       \E g \in GarbageValues :
          LET r == WordScore_new(w, char_freq, build, g)
          IN  /\ ws' = r.ws
              /\ pc' = IF r.fault = "none" THEN "scored" ELSE "fault"
    /\ UNCHANGED <<grepVars, build, freqVars, filterVars, parseVars,
                   analyseVars, heapVars>>

NextScore == NewWordScore

SpecScore == InitScore /\ [][NextScore]_vars

DistinctLetters(w) == {to_ascii_lowercase(w[i]) : i \in 1..Len(w)}

RECURSIVE SumFreq(_, _)
SumFreq(cf, ls) ==
    IF ls = {} THEN 0
    ELSE LET l == CHOOSE x \in ls : TRUE
         IN  cf[l - 97 + 1] + SumFreq(cf, ls \ {l})

\* C5: the score of a word of ASCII letters is the sum of frequency(letter)
\* over the distinct letters of the word, compared case-insensitively; a
\* repeated letter counts once.
C5_ScoreDistinctLetters ==
    pc \in {"scored", "fault"} =>
        /\ pc = "scored"
        /\ ws.score = SumFreq(char_freq, DistinctLetters(ws.word))

\* with a:3, b:1, c:1 the score of "aaAabc" is 3 + 1 + 1
C5_Witness ==
    /\ pc = "scored"
    /\ char_freq[1] = 3 /\ char_freq[2] = 1 /\ char_freq[3] = 1
    /\ ws.word = <<97, 97, 65, 97, 98, 99>>
    /\ ws.score = 5

----------------------------------------------------------------------------
(* SpecHeap: WordScores built from one table are pushed on a BinaryHeap,   *)
(* which is then popped until it is empty.                                 *)

\* words are drawn over 'a' and 'b'
HeapChars == {97, 98}

InitHeap ==
    /\ pc = "pushing" /\ IdleFilter /\ IdleParse /\ IdleAnalyse /\ IdleHeap /\ IdleGrep
    /\ calls = [c \in FreqChars |-> 0]
    /\ char_freq \in ScoreTables
    /\ build = "release"
    /\ ws = None

Push ==
    /\ pc = "pushing"
    /\ pushed < MaxPush
    /\ \E n \in 0..MaxHeapChars : \E w \in [1..n -> HeapChars] :
       \E g \in GarbageValues :
          LET r == WordScore_new(w, char_freq, build, g)
          IN  /\ r.fault = "none"
              /\ heap' = heap_push(heap, r.ws)
    /\ pushed' = pushed + 1
    /\ UNCHANGED <<grepVars, pc, popped, last, scoreVars, freqVars, filterVars,
                   parseVars, analyseVars>>

Pop ==
    /\ pc \in {"pushing", "popping"}
    /\ LET x == heap_max(heap)
       IN  /\ last' = x
           /\ IF x = None
              THEN pc' = "empty" /\ UNCHANGED <<heap, popped>>
              ELSE /\ pc' = "popping"
                   /\ heap' = heap_remove(heap, x)
                   /\ popped' = Append(popped, x)
    /\ UNCHANGED <<grepVars, pushed, scoreVars, freqVars, filterVars,
                   parseVars, analyseVars>>

NextHeap == Push \/ Pop

SpecHeap == InitHeap /\ [][NextHeap]_vars

\* a comes strictly before b in lexicographic order
LexLess(a, b) ==
    \E n \in 1..Len(b) :
        /\ \A i \in 1..(n - 1) : i <= Len(a) /\ a[i] = b[i]
        /\ n - 1 <= Len(a)
        /\ (n = Len(a) + 1 \/ a[n] < b[n])

LexLeq(a, b) == a = b \/ LexLess(a, b)

Scored == BagToSet(heap) \cup Range(popped)

\* cmp is a total order on the WordScores at hand, with the score as
\* primary key
TotalOrderByScore ==
    /\ \A x, y \in Scored :
          /\ cmp(x, y) = reverse(cmp(y, x))
          /\ (cmp(x, y) = "Equal") <=> (x = y)
          /\ x.score < y.score => cmp(x, y) = "Less"
    /\ \A x, y, z \in Scored :
          cmp(x, y) # "Greater" /\ cmp(y, z) # "Greater" => cmp(x, z) # "Greater"

\* C3 as stated: cmp is a total order with the score as primary key; of two
\* WordScores with equal scores the one whose word is lexicographically
\* greater compares as the larger, so the drain emits, among equal scores,
\* lexicographically later words first.
C3_TieLaterIsLarger ==
    /\ TotalOrderByScore
    /\ \A x, y \in Scored :
          x.score = y.score /\ LexLess(y.word, x.word) => cmp(x, y) = "Greater"
    /\ \A i, j \in 1..Len(popped) :
          i < j /\ popped[i].score = popped[j].score
              => LexLeq(popped[j].word, popped[i].word)

\* C3 amended: cmp is a total order with the score as primary key; of two
\* WordScores with equal scores the one whose word is lexicographically
\* greater compares as the smaller, so the drain emits, among equal scores,
\* lexicographically earlier words first.
C3_TieEarlierIsLarger ==
    /\ TotalOrderByScore
    /\ \A x, y \in Scored :
          x.score = y.score /\ LexLess(y.word, x.word) => cmp(x, y) = "Less"
    /\ \A i, j \in 1..Len(popped) :
          i < j /\ popped[i].score = popped[j].score
              => LexLeq(popped[i].word, popped[j].word)

\* two different words of equal score were popped, a third is still held
C3_Witness ==
    /\ Len(popped) = 2
    /\ popped[1].score = popped[2].score
    /\ popped[1].word # popped[2].word
    /\ BagToSet(heap) # {}

\* C4: the pops come in non-increasing score order, among equal scores the
\* lexicographically smaller word first, and once every pushed WordScore
\* has been popped the next pop returns nothing.
C4_PopOrder ==
    /\ \A i, j \in 1..Len(popped) :
          i < j => \/ popped[i].score > popped[j].score
                   \/ /\ popped[i].score = popped[j].score
                      /\ LexLeq(popped[i].word, popped[j].word)
    /\ Len(popped) <= pushed
    /\ pc = "popping" => last # None /\ last = popped[Len(popped)]
    /\ pc = "empty" => last = None /\ Len(popped) = pushed

\* with a:3, b:1 the pops of "ab", "ba", "b" are "ab" (4), "ba" (4), "b" (1),
\* and then nothing
C4_Witness ==
    /\ pc = "empty"
    /\ popped = <<[word |-> <<97, 98>>, score |-> 4],
                  [word |-> <<98, 97>>, score |-> 4],
                  [word |-> <<98>>, score |-> 1]>>

----------------------------------------------------------------------------
(* SpecGrep: the Grep command with score_sort = Some(K).                   *)

Builds == {"debug", "release"}

\* the lines of the word source: "aaaab", "baaaa", "Abbbb", "aaaa" and
\* "aaaa'"
GrepLines ==
    {<<97, 97, 97, 97, 98>>, <<98, 97, 97, 97, 97>>, <<65, 98, 98, 98, 98>>,
     <<97, 97, 97, 97>>, <<97, 97, 97, 97, 39>>}

\* the arguments: no constraint, or -i "c" and -d "*a***"
GrepIgnore == {<<>>, <<99>>}
GrepDifferent == {<<>>, <<<<42, 97, 42, 42, 42>>>>}

\* the requested counts: small ones, the first one whose buffer is too large,
\* isize::MAX + 1 and usize::MAX
RequestedCounts ==
    (0..MaxK) \cup {IsizeMax \div SizeOfWordScore + 1, IsizeMax + 1, UsizeMax}

\* the frequency files: what Analyse writes for the tables of ScoreTables
FreqFiles == {write_file(NoFile, fmt_lines(to_vec(t), 1)) : t \in ScoreTables}

InitGrep ==
    /\ pc = "start" /\ IdleFilter /\ IdleParse /\ IdleFreq /\ IdleAnalyse
    /\ IdleHeap /\ IdleGrep
    /\ build \in Builds
    /\ ws = None

\* main, Commands::Grep, up to the first read of the word source
GrepStart ==
    /\ pc = "start"
    /\ \E ic \in GrepIgnore, ds \in GrepDifferent :
          filter' = Filter_new(parse_ignore_chars(ic), <<>>,
                               parse_different_positions(ds))
    /\ \E n \in 0..MaxLines : \E d \in [1..n -> GrepLines] : dict' = d
    /\ \E f \in FreqFiles : char_freq' = from_file(f)
    /\ \E K \in RequestedCounts :
          /\ score_sort' = K
          /\ k' = as_isize(K)
          /\ pc' = IF capacity_overflow(K) THEN "panic" ELSE "collect"
    /\ UNCHANGED <<nread, out, fault, word, accepted, calls, parseVars, analyseVars,
                   scoreVars, heapVars>>

\* one turn of the loop over the lines
CollectLine ==
    /\ pc = "collect"
    /\ nread < Len(dict)
    /\ nread' = nread + 1
    /\ LET line == dict[nread + 1]
       IN  IF accept(filter, to_lowercase(line))
           THEN \E g \in GarbageValues :
                   LET r == WordScore_new(line, char_freq, build, g)
                   IN  /\ fault' = IF fault = "none" THEN r.fault ELSE fault
                       /\ \/ /\ r.fault \in {"underflow", "overflow"}
                             /\ pc' = "panic"
                             /\ UNCHANGED <<heap, pushed>>
                          \/ /\ r.fault = "out_of_range"
                             /\ pc' = "crashed"
                             /\ UNCHANGED <<heap, pushed>>
                          \/ /\ r.fault \in {"none", "out_of_range"}
                             /\ heap' = heap_push(heap, r.ws)
                             /\ pushed' = pushed + 1
                             /\ pc' = pc
           ELSE UNCHANGED <<fault, heap, pushed, pc>>
    /\ UNCHANGED <<score_sort, k, dict, out, popped, last, scoreVars, freqVars,
                   filterVars, parseVars, analyseVars>>

\* the lines are exhausted
EndOfInput ==
    /\ pc = "collect"
    /\ nread = Len(dict)
    /\ pc' = "drain"
    /\ UNCHANGED <<grepVars, scoreVars, heapVars, freqVars, filterVars, parseVars,
                   analyseVars>>

\* one turn of the drain loop
Drain ==
    /\ pc = "drain"
    /\ LET x == heap_max(heap)
       IN  /\ last' = x
           /\ IF x = None
              THEN pc' = "done" /\ UNCHANGED <<heap, popped, k, out>>
              ELSE /\ heap' = heap_remove(heap, x)
                   /\ popped' = Append(popped, x)
                   /\ IF k <= 0
                      THEN pc' = "done" /\ UNCHANGED <<k, out>>
                      ELSE /\ k' = k - 1
                           /\ out' = Append(out, x.word)
                           /\ pc' = pc
    /\ UNCHANGED <<score_sort, dict, nread, fault, pushed, scoreVars, freqVars,
                   filterVars, parseVars, analyseVars>>

NextGrep == GrepStart \/ CollectLine \/ EndOfInput \/ Drain

SpecGrep == InitGrep /\ [][NextGrep]_vars

Min(x, y) == IF x <= y THEN x ELSE y

\* the lines of the word source the filter accepts
AcceptedLines == {i \in 1..Len(dict) : accept(filter, to_lowercase(dict[i]))}

Ended == pc \in {"done", "panic", "crashed"}

\* C2: the run emits exactly min(K, n) words, n the filter-accepted lines, in
\* the order the heap pops them (nothing for K = 0, all n for K > n), and
\* emits no word before every line has been filtered and inserted.
C2_EmitsMinKN ==
    /\ Ended => Len(out) = Min(score_sort, Cardinality(AcceptedLines))
    /\ \A i \in 1..Len(out) : i <= Len(popped) /\ out[i] = popped[i].word
    /\ out # <<>> => nread = Len(dict) /\ pushed = Cardinality(AcceptedLines)

\* every accepted line is made of ASCII letters
LettersOnly ==
    \A i \in AcceptedLines : \A j \in 1..Len(dict[i]) : is_ascii_alphabetic(dict[i][j])

\* C2 where the code is sound: for a count whose buffer can be allocated and
\* accepted lines made of letters, the run ends normally with min(K, n) words.
C2_WithinLimits ==
    ~capacity_overflow(score_sort) /\ LettersOnly =>
        /\ Ended => pc = "done" /\ Len(out) = Min(score_sort, Cardinality(AcceptedLines))
        /\ \A i \in 1..Len(out) : i <= Len(popped) /\ out[i] = popped[i].word
        /\ out # <<>> => nread = Len(dict) /\ pushed = Cardinality(AcceptedLines)

\* C10: scoring an accepted line touches only the slots 0..25 of the table:
\* no letter-index subtraction underflows and no access is out of range.
C10_ScoringInRange == fault = "none"

====
